---- MODULE Spec2Model ----
(***************************************************************************)
(* Model of the time range algebra of cappuccinotm/trn: Range, Contains,   *)
(* Truncate, Intersection and the boundary sweep MergeOverlappingRanges.   *)
(* Instants are integers; a Range is a start instant and a duration.       *)
(*                                                                         *)
(* Spec      : a caller calls Truncate (then the swapped Truncate),        *)
(*             Contains or Intersection.                                   *)
(* SpecMerge : a caller calls MergeOverlappingRanges, then calls it again  *)
(*             on the result or on a reordering of its list.               *)
(* SpecWindows : a caller calls Between, Stratify or Split.                *)
(* SpecFlip  : a caller calls Flip, then Flip on the merged list or on     *)
(*             the gaps.                                                   *)
(* SpecFrame : a caller calls MergeOverlappingRanges, Flip, Intersection   *)
(*             or SortRanges on a list in any order.                       *)
(* SpecPerDay : a caller calls SplitToRangesPerDay.                        *)
(*                                                                         *)
(* Stratify and Split exist in two revisions: package trn rejects          *)
(* non-positive arguments with an error, package timerange (and store)     *)
(* panics on zero arguments only. Both are modelled.                       *)
(*                                                                         *)
(* sort.Slice is not stable and the comparator of MergeOverlappingRanges   *)
(* looks at the time only, so the order of the boundaries that share an    *)
(* instant is a nondeterministic choice once the array is longer than      *)
(* what is sorted by insertion (SortSlice).                                *)
(***************************************************************************)
EXTENDS Integers, Sequences, FiniteSets

\* ------------------------------------------------------------------ bounds
\* Largest instant of the time line of the ranges given to Truncate and
\* Intersection (instants are 0..MaxT).
MaxT ==
    3

\* Largest instant of the time line of the ranges given to
\* MergeOverlappingRanges.
MaxMergeT ==
    3

\* Largest number of ranges in a caller's list.
MaxLen ==
    3

\* Largest magnitude of a negative duration given to New(start, duration).
MaxNegDur ==
    1

\* Largest instant of the time line of the ranges given to Stratify, Split
\* and Between, and largest duration and interval given to them.
MaxWinT ==
    3

\* Largest instant of the time line of the instants given to Between, which
\* reaches further than the largest Duration.
MaxBetweenT ==
    6

\* Largest instant of the time line of the period and ranges given to Flip.
MaxFlipT ==
    3

\* Largest number of ranges in a list given to Flip.
MaxFlipLen ==
    3

\* Largest instant, and longest list, of the calls that may touch the
\* caller's list.
MaxFrameT ==
    2

MaxFrameLen ==
    3

\* Last calendar day, and longest list, given to SplitToRangesPerDay.
MaxDay ==
    2

MaxDayLen ==
    2

\* ------------------------------------------------------- program constants
\* The zero value of time.Time, the start of Range{}; instant 0 lies before it.
ZeroTime ==
    1

boundaryStart ==
    0

\* The largest time.Duration (an int64 of nanoseconds, about 292 years),
\* scaled to the time lines of the model: above every duration of the ranges
\* given to the other operations, below the span of the instants of Between.
maxDuration ==
    5

minDuration ==
    0 - maxDuration - 1

boundaryEnd ==
    1

\* ------------------------------------------------------------------ ranges
Instants ==
    0..MaxT

End(r) ==
    r.st + r.dur

\* Ranges built by Between(start, end) with start <= end.
Ranges ==
    {x \in [st : Instants, dur : 0..MaxT] : x.st + x.dur <= MaxT}

\* Ranges built by New(start, duration), whose duration may be negative.
AllRanges ==
    Ranges \cup {x \in [st : Instants, dur : (0 - MaxNegDur)..(-1)] : x.st + x.dur >= 0}

\* The ranges given to MergeOverlappingRanges, built by Between.
MergeRanges ==
    {x \in [st : 0..MaxMergeT, dur : 0..MaxMergeT] : x.st + x.dur <= MaxMergeT}

\* The lists a caller passes to Intersection.
RangeLists ==
    UNION {[1..n -> Ranges] : n \in 0..MaxLen}

\* An order on ranges, used only to pick one list per reordering class.
RangeLeq(a, b) ==
    a.st < b.st \/ (a.st = b.st /\ a.dur <= b.dur)

\* The lists a caller passes to MergeOverlappingRanges, one per reordering
\* class; MergePermuted below merges every reordering of the list.
MergeLists ==
    {l \in UNION {[1..n -> MergeRanges] : n \in 0..MaxLen} :
        \A j \in 1..(Len(l) - 1) : RangeLeq(l[j], l[j + 1])}

\* Range{}.
EmptyRange ==
    [st |-> ZeroTime, dur |-> 0]

Empty(r) ==
    r.st = ZeroTime /\ r.dur = 0

\* Contains with strict comparisons.
ContainsStrict(r, other) ==
    r.st < other.st /\ End(r) > End(other)

Contains(r, other) ==
    (r.st < other.st \/ r.st = other.st) /\
    (End(r) > End(other) \/ End(r) = End(other))

\* The switch of Truncate without its second case.
TruncateCaseNoSecond(r, bounds) ==
    IF r.st < bounds.st /\ End(r) < bounds.st THEN 1
    ELSE IF Contains(r, bounds) THEN 3
    ELSE IF Contains(bounds, r) THEN 4
    ELSE IF r.st < bounds.st /\ End(r) < End(bounds) THEN 5
    ELSE IF r.st > bounds.st /\ End(r) > End(bounds) THEN 6
    ELSE 7

\* The branch of the switch in Truncate that is taken; 7 is the default branch.
TruncateCase(r, bounds) ==
    IF r.st < bounds.st /\ End(r) < bounds.st THEN 1
    ELSE IF r.st > End(bounds) /\ End(r) > End(bounds) THEN 2
    ELSE IF Contains(r, bounds) THEN 3
    ELSE IF Contains(bounds, r) THEN 4
    ELSE IF r.st < bounds.st /\ End(r) < End(bounds) THEN 5
    ELSE IF r.st > bounds.st /\ End(r) > End(bounds) THEN 6
    ELSE 7

\* The fifth case keeping the start of r.
TruncateCaseFiveFromStart(r, bounds) ==
    [st |-> r.st, dur |-> End(r) - bounds.st]

\* The range returned by the fifth case of Truncate.
TruncateCaseFive(r, bounds) ==
    [st |-> bounds.st, dur |-> End(r) - bounds.st]

\* Truncate returning bounds where it should return r.
TruncateReturnsBounds(r, bounds) ==
    LET c == TruncateCase(r, bounds) IN
    CASE c = 1 -> EmptyRange
      [] c = 2 -> EmptyRange
      [] c = 3 -> bounds
      [] c = 4 -> bounds
      [] c = 5 -> TruncateCaseFive(r, bounds)
      [] c = 6 -> [st |-> r.st, dur |-> End(bounds) - r.st]
      [] OTHER -> EmptyRange

\* The value Truncate returns; the default branch panics and returns nothing,
\* which is recorded by TruncatePanics.
Truncate(r, bounds) ==
    LET c == TruncateCase(r, bounds) IN
    CASE c = 1 -> EmptyRange
      [] c = 2 -> EmptyRange
      [] c = 3 -> bounds
      [] c = 4 -> r
      [] c = 5 -> TruncateCaseFive(r, bounds)
      [] c = 6 -> [st |-> r.st, dur |-> End(bounds) - r.st]
      [] OTHER -> EmptyRange

TruncatePanics(r, bounds) ==
    TruncateCase(r, bounds) = 7

\* -------------------------------------------------------------- boundaries
rangesToBoundaries(ranges) ==
    [j \in 1..(2 * Len(ranges)) |->
        IF j % 2 = 1
        THEN [tm |-> ranges[(j + 1) \div 2].st, typ |-> boundaryStart]
        ELSE [tm |-> End(ranges[j \div 2]), typ |-> boundaryEnd]]

\* Number of boundaries of the given type at instant t.
CountAt(bs, t, typ) ==
    Cardinality({j \in 1..Len(bs) : bs[j].tm = t /\ bs[j].typ = typ})

\* Every arrangement of s start boundaries and e end boundaries of instant t.
RECURSIVE Arrangements(_, _, _)
Arrangements(t, s, e) ==
    IF s = 0 /\ e = 0 THEN {<<>>}
    ELSE (IF s = 0 THEN {}
          ELSE {<<[tm |-> t, typ |-> boundaryStart]>> \o a : a \in Arrangements(t, s - 1, e)})
         \cup
         (IF e = 0 THEN {}
          ELSE {<<[tm |-> t, typ |-> boundaryEnd]>> \o a : a \in Arrangements(t, s, e - 1)})

\* Every order the boundaries of instant t may be left in: the comparator
\* looks at the time only and sort.Slice is not stable.
TieOrders(bs, t) ==
    Arrangements(t, CountAt(bs, t, boundaryStart), CountAt(bs, t, boundaryEnd))

RECURSIVE SortedFrom(_, _)
SortedFrom(bs, times) ==
    IF times = {} THEN {<<>>}
    ELSE LET t == CHOOSE x \in times : \A y \in times : x <= y
         IN  {a \o rest : a \in TieOrders(bs, t), rest \in SortedFrom(bs, times \ {t})}

\* The length up to which sort.Slice sorts by insertion alone; Go's sort
\* package does so for slices of a dozen elements at most, scaled down here to
\* the two boundaries of one range.
insertionSortLen ==
    2

\* Insertion sort with the comparator of the merge: an element moves only
\* past elements of a later time, so boundaries of one instant keep the order
\* rangesToBoundaries gave them.
RECURSIVE insertionSortFrom(_, _)
insertionSortFrom(bs, times) ==
    IF times = {} THEN <<>>
    ELSE LET t == CHOOSE x \in times : \A y \in times : x <= y
             AtT(b) == b.tm = t
         IN  SelectSeq(bs, AtT) \o insertionSortFrom(bs, times \ {t})

insertionSort(bs) ==
    insertionSortFrom(bs, {bs[j].tm : j \in 1..Len(bs)})

\* sort.Slice(boundaries, by tm): the set of arrays it may produce. A short
\* array is sorted by insertion; a longer one goes through an unstable sort,
\* which may leave the boundaries of one instant in any order.
SortSlice(bs) ==
    IF Len(bs) <= insertionSortLen THEN {insertionSort(bs)}
    ELSE SortedFrom(bs, {bs[j].tm : j \in 1..Len(bs)})

\* ------------------------------------------------------------------- sweep
\* The locals of MergeOverlappingRanges before the loop; panic records an
\* index outside the boundary array.
SweepInit ==
    [i |-> 0, unfinishedBoundariesCnt |-> 0, rangeStartTm |-> ZeroTime,
     res |-> <<>>, panic |-> FALSE]

\* boundaries[idx] is a valid access (idx counts from 0 as in the source).
InBounds(boundaries, idx) ==
    idx >= 0 /\ idx < Len(boundaries)

\* A loop that does not stop before the last boundary.
LoopCondWhole(boundaries, i) ==
    i < Len(boundaries)

\* The loop condition i < len(boundaries)-1.
LoopCond(boundaries, i) ==
    i < Len(boundaries) - 1

\* rangeStartTm reset by every start boundary.
RunStartAlways(cnt, rangeStartTm, tm) ==
    tm

\* rangeStartTm after a start boundary at tm.
RunStart(cnt, rangeStartTm, tm) ==
    IF cnt = 0 THEN tm ELSE rangeStartTm

\* The look-ahead test on an end boundary.
LookAhead(boundary, nextBoundary) ==
    boundary.tm = nextBoundary.tm /\ nextBoundary.typ = boundaryStart

\* One iteration of the loop, the i++ of the for statement included.
SweepStep(boundaries, s) ==
    IF ~InBounds(boundaries, s.i) THEN [s EXCEPT !.panic = TRUE]
    ELSE LET boundary == boundaries[s.i + 1] IN
      IF boundary.typ = boundaryStart
      THEN [s EXCEPT !.rangeStartTm = RunStart(s.unfinishedBoundariesCnt, @, boundary.tm),
                     !.unfinishedBoundariesCnt = @ + 1,
                     !.i = @ + 1]
      ELSE IF ~InBounds(boundaries, s.i + 1) THEN [s EXCEPT !.panic = TRUE]
      ELSE LET nextBoundary == boundaries[s.i + 2] IN
        IF LookAhead(boundary, nextBoundary)
        THEN [s EXCEPT !.i = @ + 2]
        ELSE [s EXCEPT !.unfinishedBoundariesCnt = @ - 1,
                       !.res = IF s.unfinishedBoundariesCnt - 1 = 0
                               THEN Append(@, [st |-> s.rangeStartTm,
                                               dur |-> boundary.tm - s.rangeStartTm])
                               ELSE @,
                       !.i = @ + 1]

RECURSIVE SweepLoop(_, _)
SweepLoop(boundaries, s) ==
    IF s.panic \/ ~LoopCond(boundaries, s.i) THEN s
    ELSE SweepLoop(boundaries, SweepStep(boundaries, s))

\* The statements after the loop, which process the last boundary.
SweepLast(boundaries, s) ==
    IF s.panic THEN s
    ELSE IF s.unfinishedBoundariesCnt - 1 = 0
    THEN IF ~InBounds(boundaries, Len(boundaries) - 1) THEN [s EXCEPT !.panic = TRUE]
         ELSE [s EXCEPT !.unfinishedBoundariesCnt = @ - 1,
                        !.res = Append(@, [st |-> s.rangeStartTm,
                                           dur |-> boundaries[Len(boundaries)].tm - s.rangeStartTm])]
    ELSE [s EXCEPT !.unfinishedBoundariesCnt = @ - 1]

\* The sweep over an already sorted boundary array.
Sweep(boundaries) ==
    SweepLast(boundaries, SweepLoop(boundaries, SweepInit))

\* The outcomes MergeOverlappingRanges may produce for a list.
MergeOutcomes(list) ==
    {Sweep(b) : b \in SortSlice(rangesToBoundaries(list))}

\* ------------------------------------------------------ Between, Stratify
\* t.Sub(u) of package time: the difference, or the largest (smallest)
\* Duration when the difference does not fit.
Sub(t, u) ==
    IF t - u > maxDuration THEN maxDuration
    ELSE IF t - u < minDuration THEN minDuration
    ELSE t - u

\* Between(start, end): the range and the error it returns.
Between(start, end) ==
    IF start > end
    THEN [rng |-> EmptyRange, err |-> "ErrStartAfterEnd"]
    ELSE [rng |-> [st |-> start, dur |-> Sub(end, start)], err |-> "nil"]

\* The receivers of Stratify and Split, built by New or Between.
WinRanges ==
    {x \in [st : 0..MaxWinT, dur : (0 - MaxNegDur)..MaxWinT] :
        x.st + x.dur >= 0 /\ x.st + x.dur <= MaxWinT}

\* The durations and intervals given to Stratify and Split.
WinDurations ==
    (0 - MaxNegDur - 1)..MaxWinT

\* The revisions of Stratify and Split.
Packages ==
    {"trn", "timerange"}

\* The failure of the guard of Stratify: an error of package trn, a panic of
\* package timerange; "nil" when the guard lets the call through.
StratifyGuard(pkg, duration, interval) ==
    IF pkg = "trn"
    THEN IF interval <= 0 \/ duration <= 0 THEN "ErrZeroDurationInterval" ELSE "nil"
    ELSE IF interval = 0 \/ duration = 0 THEN "panic" ELSE "nil"

\* The failure of the guard of Split.
SplitGuard(pkg, duration) ==
    IF pkg = "trn"
    THEN IF duration <= 0 THEN "ErrZeroDurationInterval" ELSE "nil"
    ELSE IF duration = 0 THEN "panic" ELSE "nil"

\* Split passing its interval on unchanged.
SplitIntervalGapOnly(duration, interval) ==
    interval

\* The interval Split passes to Stratify.
SplitInterval(duration, interval) ==
    duration + interval

\* A loop condition that leaves out the window ending at rangeEnd.
StratifyCondStrict(rangeEnd, rangeStart, duration) ==
    rangeEnd - (rangeStart + duration) > 0

\* The loop condition rangeEnd.Sub(rangeStart.Add(duration)) >= 0.
StratifyCond(rangeEnd, rangeStart, duration) ==
    rangeEnd - (rangeStart + duration) >= 0

\* The loop stepping by the duration of the window.
NextRangeStartByDuration(rangeStart, duration, interval) ==
    rangeStart + duration

\* rangeStart = rangeStart.Add(interval)
NextRangeStart(rangeStart, duration, interval) ==
    rangeStart + interval

\* The number of loop iterations the model follows; a call of package trn
\* over WinRanges returns before it.
MaxIterations ==
    2 * MaxWinT + MaxNegDur + 3

\* The loop of Stratify from the locals rangeStart and res to its exit, or to
\* the iteration the model follows it to.
RECURSIVE StratifyLoop(_, _, _, _, _)
StratifyLoop(rangeEnd, rangeStart, duration, interval, res) ==
    IF ~StratifyCond(rangeEnd, rangeStart, duration) \/ Len(res) >= MaxIterations
    THEN res
    ELSE StratifyLoop(rangeEnd, NextRangeStart(rangeStart, duration, interval),
                      duration, interval,
                      Append(res, [st |-> rangeStart, dur |-> duration]))

\* r.Stratify(duration, interval): the list and the failure it returns.
Stratify(pkg, r, duration, interval) ==
    IF StratifyGuard(pkg, duration, interval) # "nil"
    THEN [res |-> <<>>, err |-> StratifyGuard(pkg, duration, interval)]
    ELSE [res |-> StratifyLoop(End(r), r.st, duration, interval, <<>>), err |-> "nil"]

\* -------------------------------------------------------------------- Flip
\* The periods and the ranges given to Flip.
FlipRanges ==
    {x \in [st : 0..MaxFlipT, dur : 0..MaxFlipT] : x.st + x.dur <= MaxFlipT}

\* The lists given to Flip, one of each class of reorderings.
FlipLists ==
    {l \in UNION {[1..n -> FlipRanges] : n \in 0..MaxFlipLen} :
        \A j \in 1..(Len(l) - 1) : RangeLeq(l[j], l[j + 1])}

\* The gap before the first range.
LeadingGap(r, ranges) ==
    IF r.st # ranges[1].st
    THEN <<[st |-> r.st, dur |-> ranges[1].st - r.st]>>
    ELSE <<>>

\* The gaps between the adjacent ranges.
InnerGaps(ranges) ==
    [j \in 1..(Len(ranges) - 1) |->
        [st |-> End(ranges[j]), dur |-> ranges[j + 1].st - End(ranges[j])]]

\* flipValidRanges without the gap after the last range.
TrailingGapNever(r, ranges) ==
    <<>>

\* The gap after the last range.
TrailingGap(r, ranges) ==
    IF End(r) # End(ranges[Len(ranges)])
    THEN <<[st |-> End(ranges[Len(ranges)]),
            dur |-> End(r) - End(ranges[Len(ranges)])]>>
    ELSE <<>>

\* r.flipValidRanges(ranges); ranges[0] of an empty list is an index out of
\* range, a panic.
flipValidRanges(r, ranges) ==
    IF Len(ranges) = 0
    THEN [res |-> <<>>, panic |-> TRUE]
    ELSE [res |-> LeadingGap(r, ranges) \o InnerGaps(ranges) \o TrailingGap(r, ranges),
          panic |-> FALSE]

\* The outcomes r.Flip(ranges) may produce, each with the merged list rngs it
\* went through.
FlipOutcomes(r, ranges) ==
    IF Len(ranges) = 0
    THEN {[rngs |-> <<>>, res |-> <<r>>, panic |-> FALSE]}
    ELSE {IF o.panic
          THEN [rngs |-> o.res, res |-> <<>>, panic |-> TRUE]
          ELSE [rngs |-> o.res,
                res |-> flipValidRanges(r, o.res).res,
                panic |-> flipValidRanges(r, o.res).panic] :
             o \in MergeOutcomes(ranges)}

\* ------------------------------------------------------------ permutations
Permutations(list) ==
    {[j \in 1..Len(list) |-> list[p[j]]] :
        p \in {q \in [1..Len(list) -> 1..Len(list)] :
                  \A a, b \in 1..Len(list) : a # b => q[a] # q[b]}}

\* The ranges and the lists of the caller whose list is watched across calls;
\* the lists are in any order.
FrameRanges ==
    {x \in [st : 0..MaxFrameT, dur : 0..MaxFrameT] : x.st + x.dur <= MaxFrameT}

FrameLists ==
    UNION {[1..n -> FrameRanges] : n \in 0..MaxFrameLen}

\* sort.Slice(ranges, by start): the orders an unstable sort by the start
\* alone may leave the list in.
SortRanges(list) ==
    {p \in Permutations(list) : \A j \in 1..(Len(p) - 1) : ~(p[j + 1].st < p[j].st)}

\* ------------------------------------------------------ SplitToRangesPerDay
\* time.Nanosecond, the unit of the instants of this part.
Nanosecond ==
    1

\* The length of a calendar day, 24 hours, scaled down to a few instants.
DayLen ==
    3

\* DateRange{Start, End} with Start <= End, on the days 0..MaxDay; a range
\* may end at the midnight that closes the last day.
DayRanges ==
    {x \in [Start : 0..((MaxDay + 1) * DayLen), End : 0..((MaxDay + 1) * DayLen)] :
        x.Start <= x.End}

\* The lists SplitToRangesPerDay is documented for: sorted by start, no two
\* ranges overlapping.
DayLists ==
    {l \in UNION {[1..n -> DayRanges] : n \in 0..MaxDayLen} :
        \A j \in 1..(Len(l) - 1) : l[j].End <= l[j + 1].Start}

\* DateFromTime(t): the calendar day of t, days counted from 0.
DateFromTime(t) ==
    t \div DayLen

\* dt.Add(0, 0, d)
DateAdd(dt, d) ==
    dt + d

\* dt.Before(other)
DateBefore(dt, other) ==
    dt < other

\* NewClock(h, 0, 0, 0, loc) as Date.Time reads it, through Hour(): time.Date
\* normalises hour 24 to hour 0 of the next day, so the clock reads 0.
NewClock(h) ==
    h % DayLen

\* dt.Time(c): the day dt at the time of day of c.
DateTime(dt, c) ==
    dt * DayLen + c

\* res[k] = append(res[k], v) on a map whose missing keys read as nil.
MapAppend(m, k, v) ==
    [x \in DOMAIN m \cup {k} |->
        IF x = k THEN (IF k \in DOMAIN m THEN Append(m[k], v) ELSE <<v>>)
        ELSE m[x]]

\* The test on the rest of the range after the last midnight, keeping a rest
\* of any positive length.
TrailingPieceAny(rngEnd, startTime) ==
    Sub(rngEnd, startTime) > 0

\* rng.End.Sub(startTime) > 1*time.Nanosecond
TrailingPiece(rngEnd, startTime) ==
    Sub(rngEnd, startTime) > 1 * Nanosecond

\* The inner loop: one piece per midnight between startDate and endDate.
RECURSIVE SplitDayLoop(_, _, _, _)
SplitDayLoop(res, startTime, startDate, endDate) ==
    IF ~DateBefore(startDate, endDate)
    THEN [res |-> res, startTime |-> startTime, startDate |-> startDate]
    ELSE LET dayEnd == DateTime(DateAdd(startDate, 1), NewClock(DayLen))
         IN  SplitDayLoop(MapAppend(res, startDate, [Start |-> startTime, End |-> dayEnd]),
                          dayEnd, DateFromTime(dayEnd + 1 * Nanosecond), endDate)

\* The body of the outer loop for one range.
SplitDayRange(res, r) ==
    LET l == SplitDayLoop(res, r.Start, DateFromTime(r.Start), DateFromTime(r.End))
    IN  IF TrailingPiece(r.End, l.startTime)
        THEN MapAppend(l.res, l.startDate, [Start |-> l.startTime, End |-> r.End])
        ELSE l.res

\* The outer loop over ranges[1..n].
RECURSIVE SplitDayRanges(_, _)
SplitDayRanges(list, n) ==
    IF n = 0 THEN <<>>
    ELSE SplitDayRange(SplitDayRanges(list, n - 1), list[n])

SplitToRangesPerDay(list) ==
    SplitDayRanges(list, Len(list))

\* ------------------------------------------------------------------- state
VARIABLES
    pc,          \* what the caller has done so far
    ranges,      \* the caller's list of ranges
    boundaries,  \* the sorted boundary array of the merge in progress
    res,         \* the list returned by MergeOverlappingRanges(ranges), or
                 \* the res of Stratify
    res2,        \* the list returned by a second call
    rng,         \* the receiver of the method called, or the range Between returns
    bounds,      \* the argument of Truncate
    resRange,    \* the range returned by Truncate, or the resRange of Intersection
    idx,         \* number of ranges Intersection has consumed
    panicked,    \* the last call panicked
    op,          \* the function of the window calls the caller made
    pkg,         \* the revision of Stratify and Split that is called
    duration,    \* the duration given to Stratify or Split
    interval,    \* the interval given to Stratify or Split
    stratifyInterval, \* the interval parameter of the running Stratify
    rangeStart,  \* the rangeStart of the running Stratify
    start,       \* the start given to Between
    end,         \* the end given to Between
    err,         \* the failure of the last call, "nil" when it succeeded
    gaps,        \* the list returned by Flip(ranges)
    gaps2,       \* the list returned by the second call of Flip, on
                 \* MergeOverlappingRanges(ranges) or on gaps
    contained,   \* the boolean returned by rng.Contains(bounds)
    resRange2,   \* the range returned by bounds.Truncate(rng)
    aliased,     \* the list the last call returned is the caller's own list
    perDay       \* the map returned by SplitToRangesPerDay(ranges)

\* The variables of the calls of Between, Stratify, Split and Flip.
callVars ==
    <<op, pkg, duration, interval, stratifyInterval, rangeStart, start, end,
      err, gaps, gaps2>>

\* The variables the calls of Between, Stratify and Split leave alone.
otherVars ==
    <<ranges, boundaries, res2, bounds, resRange, idx, panicked>>

\* The variables of the calls of Contains, of the swapped Truncate, of
\* SortRanges and of SplitToRangesPerDay.
lateVars ==
    <<contained, resRange2, aliased, perDay>>

vars ==
    <<pc, ranges, boundaries, res, res2, rng, bounds, resRange, idx, panicked,
      callVars, lateVars>>

\* The caller holds a list of ranges and has called nothing yet.
Start(lists) ==
    /\ pc = "start"
    /\ ranges \in lists
    /\ boundaries = <<>>
    /\ res = <<>>
    /\ res2 = <<>>
    /\ rng = EmptyRange
    /\ bounds = EmptyRange
    /\ resRange = EmptyRange
    /\ idx = 0
    /\ panicked = FALSE
    /\ op = "none"
    /\ pkg = "trn"
    /\ duration = 0
    /\ interval = 0
    /\ stratifyInterval = 0
    /\ rangeStart = ZeroTime
    /\ start = ZeroTime
    /\ end = ZeroTime
    /\ err = "nil"
    /\ gaps = <<>>
    /\ gaps2 = <<>>
    /\ contained = FALSE
    /\ resRange2 = EmptyRange
    /\ aliased = FALSE
    /\ perDay = <<>>

Init ==
    Start(RangeLists)

InitMerge ==
    Start(MergeLists)

\* MergeOverlappingRanges(ranges) up to the loop: the boundary array is built
\* and sorted.
MergeSort ==
    /\ pc = "start"
    /\ boundaries' \in SortSlice(rangesToBoundaries(ranges))
    /\ pc' = "sorted"
    /\ UNCHANGED <<lateVars, callVars, ranges, res, res2, rng, bounds, resRange, idx, panicked>>

\* MergeOverlappingRanges(ranges) from the loop to the return; the boundary
\* array is dropped at the return.
MergeSweep ==
    /\ pc = "sorted"
    /\ LET s == Sweep(boundaries) IN
          /\ res' = s.res
          /\ panicked' = s.panic
    /\ boundaries' = <<>>
    /\ pc' = "merged"
    /\ UNCHANGED <<lateVars, callVars, ranges, res2, rng, bounds, resRange, idx>>

\* res2 := MergeOverlappingRanges(res)
MergeAgain ==
    /\ pc = "merged"
    /\ ~panicked
    /\ \E o \in MergeOutcomes(res) :
          /\ res2' = o.res
          /\ panicked' = o.panic
    /\ pc' = "remerged"
    /\ UNCHANGED <<lateVars, callVars, ranges, boundaries, res, rng, bounds, resRange, idx>>

\* res2 := MergeOverlappingRanges(p) for a reordering p of ranges
MergePermuted ==
    /\ pc = "merged"
    /\ ~panicked
    /\ \E o \in UNION {MergeOutcomes(p) : p \in Permutations(ranges)} :
          /\ res2' = o.res
          /\ panicked' = o.panic
    /\ pc' = "permuted"
    /\ UNCHANGED <<lateVars, callVars, ranges, boundaries, res, rng, bounds, resRange, idx>>

\* resRange := r.Truncate(b). The caller's list plays no part in the call,
\* which is made from the state whose list is empty.
TruncateCall ==
    /\ pc = "start"
    /\ ranges = <<>>
    /\ \E r \in AllRanges, b \in AllRanges :
          /\ rng' = r
          /\ bounds' = b
          /\ resRange' = Truncate(r, b)
          /\ panicked' = TruncatePanics(r, b)
    /\ pc' = "truncated"
    /\ UNCHANGED <<lateVars, callVars, ranges, boundaries, res, res2, idx>>

\* contained := bounds.Contains(rng), the receiver and the argument swapped.
ContainsCallSwapped ==
    /\ pc = "start"
    /\ ranges = <<>>
    /\ \E r \in AllRanges, other \in AllRanges :
          /\ rng' = r
          /\ bounds' = other
          /\ contained' = Contains(other, r)
    /\ pc' = "contained"
    /\ UNCHANGED <<callVars, ranges, boundaries, res, res2, resRange, idx, panicked,
                   resRange2, aliased, perDay>>

\* contained := rng.Contains(bounds), called like Truncate from the state
\* whose list is empty.
ContainsCall ==
    /\ pc = "start"
    /\ ranges = <<>>
    /\ \E r \in AllRanges, other \in AllRanges :
          /\ rng' = r
          /\ bounds' = other
          /\ contained' = Contains(r, other)
    /\ pc' = "contained"
    /\ UNCHANGED <<callVars, ranges, boundaries, res, res2, resRange, idx, panicked,
                   resRange2, aliased, perDay>>

\* resRange2 := bounds.Truncate(rng), the call of TruncateCall with the
\* receiver and the argument swapped.
TruncateSwapped ==
    /\ pc = "truncated"
    /\ ~panicked
    /\ resRange2' = Truncate(bounds, rng)
    /\ panicked' = TruncatePanics(bounds, rng)
    /\ pc' = "truncatedboth"
    /\ UNCHANGED <<callVars, ranges, boundaries, res, res2, rng, bounds, resRange, idx,
                   contained, aliased, perDay>>

\* Intersection folding from Range{} instead of ranges[0].
IntersectionStartFromZero ==
    /\ pc = "start"
    /\ IF Len(ranges) = 0
       THEN /\ resRange' = EmptyRange
            /\ idx' = 0
            /\ pc' = "intersected"
       ELSE /\ resRange' = EmptyRange
            /\ idx' = 1
            /\ pc' = IF Len(ranges) = 1 THEN "intersected" ELSE "intersecting"
    /\ UNCHANGED <<lateVars, callVars, ranges, boundaries, res, res2, rng, bounds, panicked>>

\* Intersection(ranges) up to the loop: the early return or resRange := ranges[0]
IntersectionStart ==
    /\ pc = "start"
    /\ IF Len(ranges) = 0
       THEN /\ resRange' = EmptyRange
            /\ idx' = 0
            /\ pc' = "intersected"
       ELSE /\ resRange' = ranges[1]
            /\ idx' = 1
            /\ pc' = IF Len(ranges) = 1 THEN "intersected" ELSE "intersecting"
    /\ UNCHANGED <<lateVars, callVars, ranges, boundaries, res, res2, rng, bounds, panicked>>

\* The loop of Intersection truncating ranges[0] instead of the running
\* result.
IntersectionStepFromFirst ==
    /\ pc = "intersecting"
    /\ resRange' = Truncate(ranges[1], ranges[idx + 1])
    /\ panicked' = TruncatePanics(ranges[1], ranges[idx + 1])
    /\ idx' = idx + 1
    /\ pc' = IF TruncatePanics(ranges[1], ranges[idx + 1]) THEN "panicked"
             ELSE IF idx + 1 = Len(ranges) THEN "intersected" ELSE "intersecting"
    /\ UNCHANGED <<lateVars, callVars, ranges, boundaries, res, res2, rng, bounds>>

\* One iteration of the loop of Intersection; the iteration that consumes
\* the last range is followed by the return.
IntersectionStep ==
    /\ pc = "intersecting"
    /\ resRange' = Truncate(resRange, ranges[idx + 1])
    /\ panicked' = TruncatePanics(resRange, ranges[idx + 1])
    /\ idx' = idx + 1
    /\ pc' = IF TruncatePanics(resRange, ranges[idx + 1]) THEN "panicked"
             ELSE IF idx + 1 = Len(ranges) THEN "intersected" ELSE "intersecting"
    /\ UNCHANGED <<lateVars, callVars, ranges, boundaries, res, res2, rng, bounds>>

\* SortRanges returning a sorted copy and leaving the slice it was given.
SortRangesCallCopy ==
    /\ pc = "start"
    /\ res' \in SortRanges(ranges)
    /\ aliased' = FALSE
    /\ pc' = "sortedranges"
    /\ UNCHANGED <<callVars, ranges, boundaries, res2, rng, bounds, resRange, idx,
                   panicked, contained, resRange2, perDay>>

\* res := SortRanges(ranges): the slice of the caller is sorted in place and
\* the same slice is returned.
SortRangesCall ==
    /\ pc = "start"
    /\ ranges' \in SortRanges(ranges)
    /\ res' = ranges'
    /\ aliased' = TRUE
    /\ pc' = "sortedranges"
    /\ UNCHANGED <<callVars, boundaries, res2, rng, bounds, resRange, idx,
                   panicked, contained, resRange2, perDay>>

\* perDay := SplitToRangesPerDay(ranges)
SplitToRangesPerDayCall ==
    /\ pc = "start"
    /\ perDay' = SplitToRangesPerDay(ranges)
    /\ pc' = "perday"
    /\ UNCHANGED <<callVars, ranges, boundaries, res, res2, rng, bounds, resRange,
                   idx, panicked, contained, resRange2, aliased>>

\* rng, err := Between(s, e)
BetweenCall ==
    /\ pc = "start"
    /\ \E s \in 0..MaxBetweenT, e \in 0..MaxBetweenT :
          /\ start' = s
          /\ end' = e
          /\ rng' = Between(s, e).rng
          /\ err' = Between(s, e).err
    /\ op' = "Between"
    /\ pc' = "returned"
    /\ UNCHANGED <<lateVars, otherVars, pkg, duration, interval, stratifyInterval, rangeStart,
                   res, gaps, gaps2>>

\* r.Stratify(d, i) up to the loop: the guard and the locals.
StratifyStart ==
    /\ pc = "start"
    /\ \E k \in Packages, r \in WinRanges, d \in WinDurations, i \in WinDurations :
          /\ pkg' = k
          /\ rng' = r
          /\ duration' = d
          /\ interval' = i
          /\ stratifyInterval' = i
          /\ err' = StratifyGuard(k, d, i)
          /\ rangeStart' = IF StratifyGuard(k, d, i) = "nil" THEN r.st ELSE ZeroTime
          /\ pc' = IF StratifyGuard(k, d, i) = "nil" THEN "stratifying" ELSE "returned"
    /\ op' = "Stratify"
    /\ res' = <<>>
    /\ UNCHANGED <<lateVars, otherVars, start, end, gaps, gaps2>>

\* r.Split(d, i) up to the loop of the Stratify it calls: the guard of Split,
\* then the guard and the locals of Stratify.
SplitStart ==
    /\ pc = "start"
    /\ \E k \in Packages, r \in WinRanges, d \in WinDurations, i \in WinDurations :
          LET failure == IF SplitGuard(k, d) # "nil" THEN SplitGuard(k, d)
                         ELSE StratifyGuard(k, d, SplitInterval(d, i)) IN
          /\ pkg' = k
          /\ rng' = r
          /\ duration' = d
          /\ interval' = i
          /\ stratifyInterval' = IF SplitGuard(k, d) = "nil" THEN SplitInterval(d, i) ELSE 0
          /\ err' = failure
          /\ rangeStart' = IF failure = "nil" THEN r.st ELSE ZeroTime
          /\ pc' = IF failure = "nil" THEN "stratifying" ELSE "returned"
    /\ op' = "Split"
    /\ res' = <<>>
    /\ UNCHANGED <<lateVars, otherVars, start, end, gaps, gaps2>>

\* One iteration of the loop of Stratify.
StratifyStep ==
    /\ pc = "stratifying"
    /\ StratifyCond(End(rng), rangeStart, duration)
    /\ Len(res) < MaxIterations
    /\ res' = Append(res, [st |-> rangeStart, dur |-> duration])
    /\ rangeStart' = NextRangeStart(rangeStart, duration, stratifyInterval)
    /\ UNCHANGED <<lateVars, pc, otherVars, rng, op, pkg, duration, interval, stratifyInterval,
                   start, end, err, gaps, gaps2>>

\* The loop condition fails and Stratify returns res.
StratifyReturn ==
    /\ pc = "stratifying"
    /\ ~StratifyCond(End(rng), rangeStart, duration)
    /\ pc' = "returned"
    /\ UNCHANGED <<lateVars, otherVars, rng, res, callVars>>

\* gaps := p.Flip(ranges)
FlipCall ==
    /\ pc = "start"
    /\ \E p \in FlipRanges :
          \E o \in FlipOutcomes(p, ranges) :
             /\ rng' = p
             /\ res' = o.rngs
             /\ gaps' = o.res
             /\ panicked' = o.panic
    /\ op' = "Flip"
    /\ pc' = "flipped"
    /\ UNCHANGED <<lateVars, ranges, boundaries, res2, bounds, resRange, idx, pkg, duration,
                   interval, stratifyInterval, rangeStart, start, end, err, gaps2>>

\* res2 := MergeOverlappingRanges(ranges); gaps2 := rng.Flip(res2)
FlipMergedCall ==
    /\ pc = "flipped"
    /\ ~panicked
    /\ \E m \in MergeOutcomes(ranges) :
          \E o \in FlipOutcomes(rng, m.res) :
             /\ res2' = m.res
             /\ gaps2' = o.res
             /\ panicked' = (m.panic \/ o.panic)
    /\ pc' = "flippedmerged"
    /\ UNCHANGED <<lateVars, ranges, boundaries, res, rng, bounds, resRange, idx, op, pkg,
                   duration, interval, stratifyInterval, rangeStart, start, end,
                   err, gaps>>

\* gaps2 := rng.Flip(gaps)
FlipTwiceCall ==
    /\ pc = "flipped"
    /\ ~panicked
    /\ \E o \in FlipOutcomes(rng, gaps) :
          /\ gaps2' = o.res
          /\ panicked' = o.panic
    /\ pc' = "flippedtwice"
    /\ UNCHANGED <<lateVars, ranges, boundaries, res, res2, rng, bounds, resRange, idx,
                   op, pkg, duration, interval, stratifyInterval, rangeStart, start,
                   end, err, gaps>>

\* Truncate, Contains and Intersection over the lists of RangeLists.
Next ==
    \/ TruncateCall
    \/ ContainsCall
    \/ TruncateSwapped
    \/ IntersectionStart
    \/ IntersectionStep

Spec ==
    Init /\ [][Next]_vars

\* MergeOverlappingRanges over the lists of MergeLists.
NextMerge ==
    \/ MergeSort
    \/ MergeSweep
    \/ MergeAgain
    \/ MergePermuted

SpecMerge ==
    InitMerge /\ [][NextMerge]_vars

\* The caller of Between, Stratify and Split holds no list.
InitWindows ==
    Start({<<>>})

NextWindows ==
    \/ BetweenCall
    \/ StratifyStart
    \/ SplitStart
    \/ StratifyStep
    \/ StratifyReturn

SpecWindows ==
    InitWindows /\ [][NextWindows]_vars

\* Flip over the lists of FlipLists.
InitFlip ==
    Start(FlipLists)

NextFlip ==
    \/ FlipCall
    \/ FlipMergedCall
    \/ FlipTwiceCall

SpecFlip ==
    InitFlip /\ [][NextFlip]_vars

\* MergeOverlappingRanges, Flip, Intersection and SortRanges over the lists
\* of FrameLists.
InitFrame ==
    Start(FrameLists)

NextFrame ==
    \/ MergeSort
    \/ MergeSweep
    \/ FlipCall
    \/ IntersectionStart
    \/ IntersectionStep
    \/ SortRangesCall

SpecFrame ==
    InitFrame /\ [][NextFrame]_vars

\* SplitToRangesPerDay over the lists of DayLists.
InitPerDay ==
    Start(DayLists)

NextPerDay ==
    SplitToRangesPerDayCall

SpecPerDay ==
    InitPerDay /\ [][NextPerDay]_vars

\* ---------------------------------------------------- vocabulary of claims
Max(a, b) ==
    IF a >= b THEN a ELSE b

Min(a, b) ==
    IF a <= b THEN a ELSE b

\* The instants a list covers, each range read as the half-open [start, end).
Covered(list) ==
    UNION {list[j].st..(End(list[j]) - 1) : j \in 1..Len(list)}

\* Two ranges share an instant as half-open intervals.
Overlapping(a, b) ==
    Max(a.st, b.st) < Min(End(a), End(b))

\* [max of the starts, min of the ends)
Clip(a, b) ==
    [st |-> Max(a.st, b.st), dur |-> Min(End(a), End(b)) - Max(a.st, b.st)]

MaxStart(list) ==
    CHOOSE t \in {list[j].st : j \in 1..Len(list)} :
        \A j \in 1..Len(list) : list[j].st <= t

MinEnd(list) ==
    CHOOSE t \in {End(list[j]) : j \in 1..Len(list)} :
        \A j \in 1..Len(list) : End(list[j]) >= t

\* The left-to-right fold of Truncate over list[1..n].
RECURSIVE FoldTruncate(_, _)
FoldTruncate(list, n) ==
    IF n = 1 THEN list[1]
    ELSE Truncate(FoldTruncate(list, n - 1), list[n])

\* ------------------------------------------------------------------ claims

\* No two ranges of out share an instant and out covers the instants of in.
DisjointSameCoverage(in, out) ==
    /\ \A a, b \in 1..Len(out) :
          a # b => Covered(<<out[a]>>) \cap Covered(<<out[b]>>) = {}
    /\ Covered(out) = Covered(in)

MergeNeverFails ==
    pc \in {"merged", "remerged", "permuted"} =>
        /\ ~panicked
        /\ (ranges = <<>> => res = <<>>)

MergeNeverFailsWitness ==
    /\ pc = "merged"
    /\ Len(ranges) >= 2
    /\ \A j \in 1..Len(ranges) : ranges[j].dur = 0 /\ ranges[j] = ranges[1]
    /\ res = <<>>

\* C6: for overlapping ranges of duration >= 0 Truncate returns
\* [max of the starts, min of the ends), in each of its four shapes.
TruncateOverlapping ==
    (pc = "truncated" /\ rng.dur >= 0 /\ bounds.dur >= 0 /\ Overlapping(rng, bounds)) =>
        /\ resRange = Clip(rng, bounds)
        /\ (Contains(rng, bounds) => resRange = bounds)
        /\ (Contains(bounds, rng) => resRange = rng)
        /\ (rng.st < bounds.st /\ End(rng) <= End(bounds) =>
               resRange = [st |-> bounds.st, dur |-> End(rng) - bounds.st])
        /\ (rng.st >= bounds.st /\ End(rng) > End(bounds) =>
               resRange = [st |-> rng.st, dur |-> End(bounds) - rng.st])

TruncateOverlappingWitness ==
    /\ pc = "truncated"
    /\ rng.st < bounds.st
    /\ bounds.st < End(rng)
    /\ End(rng) < End(bounds)
    /\ resRange.dur > 0

TruncateExhaustive ==
    /\ pc = "truncated" => ~panicked /\ TruncateCase(rng, bounds) \in 1..6
    /\ pc # "panicked"

TruncateExhaustiveWitness ==
    /\ pc = "truncated"
    /\ TruncateCase(rng, bounds) = 6
    /\ rng.st = End(bounds)

\* C9: Intersection returns the empty sentinel for the empty list, otherwise
\* the fold of Truncate: [max of the starts, min of the ends) when the ranges
\* share a sub-interval of positive length, the empty sentinel when a gap
\* separates two of them.
IntersectionResult ==
    pc = "intersected" =>
        /\ (Len(ranges) = 0 => resRange = EmptyRange)
        /\ (Len(ranges) > 0 =>
              /\ resRange = FoldTruncate(ranges, Len(ranges))
              /\ (MaxStart(ranges) < MinEnd(ranges) =>
                     resRange = [st |-> MaxStart(ranges),
                                 dur |-> MinEnd(ranges) - MaxStart(ranges)])
              /\ ((\E a, b \in 1..Len(ranges) : End(ranges[a]) < ranges[b].st) =>
                     resRange = EmptyRange))

IntersectionResultWitness ==
    /\ pc = "intersected"
    /\ Len(ranges) = 3
    /\ MaxStart(ranges) < MinEnd(ranges)
    /\ ranges[1] # ranges[2]
    /\ ranges[2] # ranges[3]
    /\ ranges[1] # ranges[3]
    /\ \A j \in 1..3 : resRange # ranges[j]

\* C10: once the running result of Intersection is the empty sentinel, the
\* next truncation returns the empty sentinel again and does not panic.
IntersectionEmptyPropagates ==
    [][(pc = "intersecting" /\ Empty(resRange)) =>
          (Empty(resRange') /\ ~panicked' /\ pc' # "panicked")]_vars

IntersectionEmptyPropagatesWitness ==
    /\ pc = "intersected"
    /\ Len(ranges) = 3
    /\ ranges[1].dur > 0
    /\ ranges[2].dur > 0
    /\ Empty(Truncate(ranges[1], ranges[2]))
    /\ Contains(ranges[3], EmptyRange)
    /\ ranges[3].dur > 0
    /\ Empty(resRange)

\* ------------------------------------------------- Stratify, Split, Between
\* The number of windows of length d, stepped by i, that fit into r.
WindowCount(r, d, i) ==
    Cardinality({k \in 0..MaxIterations : r.st + k * i + d <= End(r)})

\* The windows (r.start + k*i, d) for k = 0..n-1 in ascending order.
ExpectedWindows(r, d, i) ==
    [k \in 1..WindowCount(r, d, i) |-> [st |-> r.st + (k - 1) * i, dur |-> d]]

\* C11: for duration > 0 and interval > 0 Stratify returns exactly the windows
\* (r.start + k*interval, duration) that end at or before r.end, in ascending
\* order, and nothing when duration > r.duration.
StratifyExactWindows ==
    (pc = "returned" /\ op = "Stratify" /\ duration > 0 /\ interval > 0) =>
        /\ err = "nil"
        /\ res = ExpectedWindows(rng, duration, interval)
        /\ \A j \in 1..Len(res) : res[j].dur = duration /\ End(res[j]) <= End(rng)
        /\ duration > rng.dur => res = <<>>

StratifyExactWindowsWitness ==
    /\ pc = "returned"
    /\ op = "Stratify"
    /\ pkg = "trn"
    /\ interval > 0
    /\ interval < duration
    /\ Len(res) >= 2
    /\ End(res[Len(res)]) = End(rng)

\* The call failed: an error of package trn or a panic of package timerange.
Failed ==
    err \in {"ErrZeroDurationInterval", "panic"}

\* C12: Stratify fails, returning no ranges, whenever duration <= 0 or
\* interval <= 0, and Split fails the same way whenever duration <= 0.
NonPositiveWindowFails ==
    /\ (op = "Stratify" /\ (duration <= 0 \/ interval <= 0)) =>
          (pc = "returned" /\ Failed /\ res = <<>>)
    /\ (op = "Split" /\ duration <= 0) =>
          (pc = "returned" /\ Failed /\ res = <<>>)

\* The distance the loop of Stratify has left: rangeEnd - (rangeStart + duration),
\* which the loop condition keeps >= 0 in every iteration.
Remaining ==
    End(rng) - (rangeStart + duration)

\* C13: Stratify and Split terminate: every iteration of the loop brings the
\* next window strictly closer to the end of the range, so the loop condition
\* fails after finitely many iterations.
StratifyTerminates ==
    [][(pc = "stratifying" /\ pc' = "stratifying") =>
          (Remaining >= 0 /\ Remaining' < Remaining)]_vars

\* C14: for duration > 0 and any interval, r.Split(duration, interval) returns
\* what r.Stratify(duration, duration + interval) returns: the same windows or
\* the same failure.
SplitIsStratify ==
    (pc = "returned" /\ op = "Split" /\ duration > 0) =>
        /\ res = Stratify(pkg, rng, duration, duration + interval).res
        /\ err = Stratify(pkg, rng, duration, duration + interval).err

SplitIsStratifyWitness ==
    /\ pc = "returned"
    /\ op = "Split"
    /\ pkg = "trn"
    /\ duration > 0
    /\ interval > 0
    /\ err = "nil"
    /\ Len(res) >= 2

\* Every adjacent pair of windows is separated by exactly gap.
GapsAre(list, gap) ==
    \A j \in 1..(Len(list) - 1) : list[j + 1].st - End(list[j]) = gap

\* No window starts before the previous one ends.
NonOverlapping(list) ==
    \A j \in 1..(Len(list) - 1) : End(list[j]) <= list[j + 1].st

\* C15 as claimed: every Split that succeeds returns consecutive,
\* non-overlapping windows with next.start - prev.end = interval, and with
\* interval = 0 the call succeeds and the windows tile the range.
SplitNonOverlapping ==
    /\ (pc = "returned" /\ op = "Split" /\ err = "nil") =>
          (GapsAre(res, interval) /\ NonOverlapping(res))
    /\ (pc = "returned" /\ op = "Split" /\ duration > 0 /\ interval = 0) =>
          (err = "nil" /\ GapsAre(res, 0))

\* C15 as amended: every Split that succeeds returns windows with
\* next.start - prev.end = interval; they do not overlap when interval >= 0
\* and adjacent windows overlap when interval < 0; with interval = 0 and
\* duration > 0 the call succeeds and the windows tile the range.
SplitGapIsInterval ==
    /\ (pc = "returned" /\ op = "Split" /\ err = "nil") =>
          /\ GapsAre(res, interval)
          /\ interval >= 0 => NonOverlapping(res)
          /\ (interval < 0 /\ Len(res) >= 2) => ~NonOverlapping(res)
    /\ (pc = "returned" /\ op = "Split" /\ duration > 0 /\ interval = 0) =>
          (err = "nil" /\ GapsAre(res, 0))

SplitGapIsIntervalWitness ==
    /\ pc = "returned"
    /\ op = "Split"
    /\ pkg = "trn"
    /\ err = "nil"
    /\ interval < 0
    /\ Len(res) >= 2

\* --------------------------------------------------------------------- Flip
\* The earliest start and the latest end of a non-empty list.
MinStart(list) ==
    CHOOSE t \in {list[j].st : j \in 1..Len(list)} :
        \A j \in 1..Len(list) : t <= list[j].st

MaxEnd(list) ==
    CHOOSE t \in {End(list[j]) : j \in 1..Len(list)} :
        \A j \in 1..Len(list) : t >= End(list[j])

\* Every range of the caller's list lies within the period.
FlipWithinPeriod ==
    \A j \in 1..Len(ranges) : Contains(rng, ranges[j])

\* The list is in ascending order and no range starts before the previous ends.
Ascending(list) ==
    \A j \in 1..(Len(list) - 1) :
        list[j].st <= list[j + 1].st /\ End(list[j]) <= list[j + 1].st

\* 1 when the condition holds, else 0.
Count(cond) ==
    IF cond THEN 1 ELSE 0

RECURSIVE SumDur(_, _)
SumDur(list, n) ==
    IF n = 0 THEN 0 ELSE SumDur(list, n - 1) + list[n].dur

\* The ranges of a list, each truncated to the period.
TruncatedTo(list, period) ==
    [j \in 1..Len(list) |-> Truncate(list[j], period)]

\* C19: the durations of Flip(period, ranges) and of the ranges of
\* MergeOverlappingRanges(ranges) truncated to the period sum up to
\* period.duration.
FlipConservesCoverage ==
    pc = "flippedmerged" =>
        /\ ~panicked
        /\ SumDur(gaps, Len(gaps))
             + SumDur(TruncatedTo(res2, rng), Len(res2)) = rng.dur

\* ------------------------------------------------------------------ Between
\* C20: Between(start, end) fails with ErrStartAfterEnd, returning the zero
\* Range, if and only if start > end; otherwise the range starts at start, its
\* duration is end - start and End() = end; Between(t, t) succeeds with a
\* zero-duration range.
BetweenRoundTrip ==
    (pc = "returned" /\ op = "Between") =>
        /\ (err = "ErrStartAfterEnd") <=> (start > end)
        /\ start > end => rng = EmptyRange
        /\ start <= end =>
              /\ err = "nil"
              /\ rng.st = start
              /\ rng.dur = end - start
              /\ End(rng) = end

\* C21: r.Contains(other) is true exactly when r starts no later than other
\* and ends no earlier; the comparison includes the boundaries.
ContainsIsInclusive ==
    pc = "contained" =>
        (contained <=> (rng.st <= bounds.st /\ End(rng) >= End(bounds)))

\* A range contains a different range that shares its start.
ContainsIsInclusiveWitness ==
    /\ pc = "contained"
    /\ contained
    /\ rng.st = bounds.st
    /\ End(rng) > End(bounds)
    /\ bounds.dur > 0

\* C22: every range Flip returns has a duration >= 0 when the period and the
\* ranges given to it have a duration >= 0, wherever the ranges lie.
FlipGapsNonNegative ==
    (pc = "flipped" /\ ~panicked /\ rng.dur >= 0 /\
     \A j \in 1..Len(ranges) : ranges[j].dur >= 0) =>
        \A j \in 1..Len(gaps) : gaps[j].dur >= 0

\* How many times x occurs in the list.
Occurrences(list, x) ==
    Cardinality({j \in 1..Len(list) : list[j] = x})

\* C23, as stated: no call changes the caller's list, and no call returns the
\* caller's own list.
NoCallTouchesTheList ==
    [][ranges' = ranges /\ ~aliased']_vars

\* C23, amended: MergeOverlappingRanges, Flip and Intersection leave the
\* caller's list as it is and return nothing that shares it; SortRanges
\* reorders the caller's list by start, keeping its ranges, and returns that
\* same list.
OnlySortRangesTouchesTheList ==
    [][IF pc' = "sortedranges"
       THEN /\ aliased'
            /\ res' = ranges'
            /\ \A x \in FrameRanges : Occurrences(ranges', x) = Occurrences(ranges, x)
            /\ \A j \in 1..(Len(ranges') - 1) : ranges'[j].st <= ranges'[j + 1].st
       ELSE /\ ranges' = ranges
            /\ ~aliased']_vars

\* SortRanges has returned the caller's list, which holds ranges of
\* different starts.
OnlySortRangesTouchesTheListWitness ==
    /\ pc = "sortedranges"
    /\ aliased
    /\ Len(ranges) = 3
    /\ ranges[1].st < ranges[3].st

RECURSIVE SweepTrace(_, _)
SweepTrace(bs, s) ==
    {s} \cup (IF s.panic \/ ~LoopCond(bs, s.i) THEN {}
              ELSE SweepTrace(bs, SweepStep(bs, s)))

PiecesOf(r) ==
    {e \in UNION {{[date |-> d, k |-> k, p |-> perDay[d][k]] : k \in 1..Len(perDay[d])} :
                     d \in DOMAIN perDay} :
        r.Start <= e.p.Start /\ e.p.End <= r.End}

RECURSIVE SumPieces(_)
SumPieces(P) ==
    IF P = {} THEN 0
    ELSE LET e == CHOOSE x \in P : TRUE
         IN  (e.p.End - e.p.Start) + SumPieces(P \ {e})

\* What is left of r after the last midnight it crosses, when that is at
\* most a nanosecond; else 0.
LastNanosecond(r) ==
    LET tail == r.End - Max(r.Start, DateFromTime(r.End) * DayLen)
    IN  IF tail <= Nanosecond THEN tail ELSE 0

\* The pieces of r are contiguous from r.Start, each within the day it is
\* stored under, and their durations sum to the duration of r less lost.
PerDayPieces(r, lost) ==
    /\ \A e \in PiecesOf(r) :
          /\ e.date = DateFromTime(e.p.Start)
          /\ e.p.Start < e.p.End
          /\ e.p.End <= (e.date + 1) * DayLen
          /\ e.p.Start = r.Start \/ \E f \in PiecesOf(r) : f.p.End = e.p.Start
    /\ SumPieces(PiecesOf(r)) = (r.End - r.Start) - lost

\* Every piece of the map lies within a range of the list.
PiecesWithinRanges ==
    \A d \in DOMAIN perDay : \A k \in 1..Len(perDay[d]) :
        \E j \in 1..Len(ranges) :
            ranges[j].Start <= perDay[d][k].Start /\ perDay[d][k].End <= ranges[j].End

FlipTwiceIsMerge ==
    (pc = "flippedtwice" /\
     \A j \in 1..Len(ranges) :
        ranges[j].dur > 0 /\ rng.st <= ranges[j].st /\ End(ranges[j]) <= End(rng)) =>
        /\ ~panicked
        /\ \A o \in MergeOutcomes(ranges) : gaps2 = o.res

\* Two equal sub-ranges inside the period were flipped to a leading and a
\* trailing gap, which flipped back to the one merged range.
FlipTwiceIsMergeWitness ==
    /\ pc = "flippedtwice"
    /\ ~panicked
    /\ Len(ranges) = 2
    /\ \A j \in 1..Len(ranges) :
          ranges[j].dur > 0 /\ rng.st < ranges[j].st /\ End(ranges[j]) < End(rng)
    /\ Len(gaps) = 2
    /\ Len(gaps2) = 1

\* C29: Intersection of a non-empty list of ranges of duration >= 0 returns
\* what the fold of Truncate returns over every reordering of the list.
IntersectionOrderInvariant ==
    (pc = "intersected" /\ Len(ranges) > 0) =>
        \A p \in Permutations(ranges) : FoldTruncate(p, Len(p)) = resRange

\* Three different ranges that share a sub-interval, none of them the result.
IntersectionOrderInvariantWitness ==
    /\ pc = "intersected"
    /\ Len(ranges) = 3
    /\ ranges[1].st < ranges[2].st
    /\ End(ranges[3]) < End(ranges[2])
    /\ resRange.dur > 0
    /\ \A j \in 1..3 : resRange # ranges[j]

\* C30: for two ranges of duration >= 0, a.Truncate(b) and b.Truncate(a)
\* have the same start and the same duration, and neither panics.
TruncateCommutes ==
    (pc = "truncatedboth" /\ rng.dur >= 0 /\ bounds.dur >= 0) =>
        /\ ~panicked
        /\ resRange2.st = resRange.st
        /\ resRange2.dur = resRange.dur

\* Two ranges that touch without overlapping were truncated by each other.
TruncateCommutesWitness ==
    /\ pc = "truncatedboth"
    /\ rng.dur > 0
    /\ bounds.dur > 0
    /\ End(rng) = bounds.st
    /\ resRange2 = [st |-> bounds.st, dur |-> 0]
    /\ bounds.st # ZeroTime

====
